---- MODULE Spec2Model ----
(***************************************************************************)
(* Pairs-trading core: the backtesting state machine (backtesting.py) and  *)
(* the scalar Kalman filter with its hedge-ratio driver                    *)
(* (kalman_filters.py).                                                    *)
(*                                                                         *)
(* Numbers.  The Python code computes with numbers; this module computes   *)
(* with exact rationals num/den whose numerator and denominator are        *)
(* arbitrary-size naturals (little-endian sequences of base-32768 limbs),  *)
(* so that the program's own constants (1e-8, 1e-5, 1e-2, 252) are carried *)
(* at their source values.  The backtest inputs used below are dyadic      *)
(* (cash 1024, commission 1/4, borrow_rate 63, integer spreads): on them   *)
(* IEEE-754 double arithmetic is exact, so the rational result is the      *)
(* float result.  KalmanFilter is duck-typed: on fractions.Fraction        *)
(* arguments it computes exactly what is computed here; on floats the      *)
(* rational value is the unrounded value.                                  *)
(***************************************************************************)
EXTENDS Integers, Sequences, FiniteSets, TLC

----------------------------------------------------------------------------
(* Arbitrary-size naturals: <<>> is 0, no most-significant zero limb.      *)

Base == 2 ^ 15

RECURSIVE NatOf(_)
NatOf(k) == IF k = 0 THEN <<>> ELSE <<k % Base>> \o NatOf(k \div Base)

Rest(a) == IF a = <<>> THEN <<>> ELSE Tail(a)
Low(a) == IF a = <<>> THEN 0 ELSE Head(a)

RECURSIVE NAddC(_, _, _)
NAddC(a, b, c) ==
  IF a = <<>> /\ b = <<>>
  THEN (IF c = 0 THEN <<>> ELSE <<c>>)
  ELSE IF b = <<>> /\ c = 0 THEN a
  ELSE IF a = <<>> /\ c = 0 THEN b
  ELSE LET s == Low(a) + Low(b) + c
       IN  <<s % Base>> \o NAddC(Rest(a), Rest(b), s \div Base)

NAdd(a, b) == NAddC(a, b, 0)

RECURSIVE Strip(_)
Strip(a) ==
  IF a = <<>> THEN <<>>
  ELSE IF a[Len(a)] = 0 THEN Strip(SubSeq(a, 1, Len(a) - 1))
  ELSE a

RECURSIVE NSubB(_, _, _)
\* a - b - c for a >= b + c, limb by limb with borrow c (not yet stripped)
NSubB(a, b, c) ==
  IF a = <<>> THEN <<>>
  ELSE IF b = <<>> /\ c = 0 THEN a
  ELSE LET s == Low(a) - Low(b) - c
       IN  IF s < 0
           THEN <<s + Base>> \o NSubB(Rest(a), Rest(b), 1)
           ELSE <<s>> \o NSubB(Rest(a), Rest(b), 0)

NSub(a, b) == Strip(NSubB(a, b, 0))

RECURSIVE NCmpFrom(_, _, _)
\* compares limbs k, k-1, ..., 1 of two naturals of equal length
NCmpFrom(a, b, k) ==
  IF k = 0 THEN 0
  ELSE IF a[k] < b[k] THEN -1
  ELSE IF a[k] > b[k] THEN 1
  ELSE NCmpFrom(a, b, k - 1)

\* -1, 0, 1 as a < b, a = b, a > b
NCmp(a, b) ==
  IF Len(a) < Len(b) THEN -1
  ELSE IF Len(a) > Len(b) THEN 1
  ELSE NCmpFrom(a, b, Len(a))

RECURSIVE NMulLimb(_, _, _)
NMulLimb(a, m, c) ==
  IF a = <<>> THEN (IF c = 0 THEN <<>> ELSE <<c>>)
  ELSE LET s == Head(a) * m + c
       IN  <<s % Base>> \o NMulLimb(Tail(a), m, s \div Base)

RECURSIVE NMulR(_, _)
NMulR(a, b) ==
  IF b = <<>> THEN <<>>
  ELSE LET hi == NMulR(a, Tail(b))
       IN  NAdd(IF Head(b) = 0 THEN <<>> ELSE NMulLimb(a, Head(b), 0),
                IF hi = <<>> THEN <<>> ELSE <<0>> \o hi)

One == <<1>>

NMul(a, b) ==
  IF a = <<>> \/ b = <<>> THEN <<>>
  ELSE IF a = One THEN b
  ELSE IF b = One THEN a
  ELSE NMulR(a, b)

----------------------------------------------------------------------------
(* Rationals: [neg, num, den], den > 0, zero is 0/1 and never negative.    *)
(* Common factors 2, 3, 5 and 7 are cancelled after every operation; other *)
(* common factors are not, so values are compared with REq / RLt, never    *)
(* with =.                                                                 *)

RECURSIVE NModFrom(_, _, _, _)
\* (r * Base^k + limbs k..1 of a) modulo the small number m
NModFrom(a, m, k, r) ==
  IF k = 0 THEN r ELSE NModFrom(a, m, k - 1, (r * Base + a[k]) % m)

NMod(a, m) == NModFrom(a, m, Len(a), 0)

RECURSIVE NDivFrom(_, _, _, _)
\* limbs 1..k of the quotient of a by the small number m, remainder r carried in
NDivFrom(a, m, k, r) ==
  IF k = 0 THEN <<>>
  ELSE Append(NDivFrom(a, m, k - 1, (r * Base + a[k]) % m),
              (r * Base + a[k]) \div m)

NDiv(a, m) == Strip(NDivFrom(a, m, Len(a), 0))

RECURSIVE SmallGCD(_, _)
SmallGCD(a, b) == IF b = 0 THEN a ELSE SmallGCD(b, a % b)

\* the factors cancelled in one round
Smooth == 16 * 9 * 25 * 7

RECURSIVE Reduce(_, _)
Reduce(num, den) ==
  IF num = <<>> THEN <<num, One>>
  ELSE LET g == SmallGCD(Smooth, SmallGCD(NMod(num, Smooth), NMod(den, Smooth)))
       IN  IF g = 1 THEN <<num, den>> ELSE Reduce(NDiv(num, g), NDiv(den, g))

Mk(neg, num, den) ==
  LET r == Reduce(num, den)
  IN  [neg |-> neg /\ num # <<>>, num |-> r[1], den |-> r[2]]

\* the rational n/d of two machine integers, d > 0, in lowest terms
Rat(n, d) ==
  LET m == IF n < 0 THEN -n ELSE n
      g == SmallGCD(m, d)
  IN  [neg |-> n < 0, num |-> NatOf(m \div g), den |-> NatOf(d \div g)]

Zero == Rat(0, 1)
RNeg(p) == [neg |-> ~p.neg /\ p.num # <<>>, num |-> p.num, den |-> p.den]

\* operands of one limb each are computed on machine integers
OneLimb(p, q) ==
  Len(p.num) <= 1 /\ Len(p.den) = 1 /\ Len(q.num) <= 1 /\ Len(q.den) = 1
IntNum(p) == IF p.num = <<>> THEN 0 ELSE IF p.neg THEN -p.num[1] ELSE p.num[1]
IntDen(p) == p.den[1]

\* signed sum of two magnitudes over a common denominator
SAdd(pn, a, qn, b, den) ==
  LET c == NCmp(a, b)
  IN  Mk(IF pn = qn \/ c >= 0 THEN pn ELSE qn,
         IF pn = qn THEN NAdd(a, b)
         ELSE NSub(IF c >= 0 THEN a ELSE b, IF c >= 0 THEN b ELSE a),
         den)

RAdd(p, q) ==
  IF OneLimb(p, q)
  THEN Rat(IntNum(p) * IntDen(q) + IntNum(q) * IntDen(p), IntDen(p) * IntDen(q))
  ELSE LET same == p.den = q.den
       IN  SAdd(p.neg, NMul(p.num, IF same THEN One ELSE q.den),
                q.neg, NMul(q.num, IF same THEN One ELSE p.den),
                NMul(p.den, IF same THEN One ELSE q.den))

RSub(p, q) == RAdd(p, RNeg(q))

RMul(p, q) ==
  IF OneLimb(p, q)
  THEN Rat(IntNum(p) * IntNum(q), IntDen(p) * IntDen(q))
  ELSE Mk(p.neg # q.neg, NMul(p.num, q.num), NMul(p.den, q.den))

RIsZero(p) == p.num = <<>>

\* p / q for q # 0
RDiv(p, q) == RMul(p, [neg |-> q.neg, num |-> q.den, den |-> q.num])

REq(p, q) == p.neg = q.neg /\ NMul(p.num, q.den) = NMul(q.num, p.den)
RSign(p) == IF p.num = <<>> THEN 0 ELSE IF p.neg THEN -1 ELSE 1
RLt(p, q) == RSign(RSub(p, q)) < 0
RLe(p, q) == RSign(RSub(p, q)) <= 0
RAbs(p) == [neg |-> FALSE, num |-> p.num, den |-> p.den]

----------------------------------------------------------------------------
(* backtesting.py: backtest(df, initial_cash, commission, borrow_rate)     *)

VARIABLES
  initial_cash,   \* parameter
  commission,     \* parameter
  borrow_rate,    \* parameter
  n,              \* len(df)
  df,             \* the rows of df the loop has read so far, rows 0..i-1
  i,              \* the loop index: the next row to read
  cash,
  position,       \* 0 flat, 1 long, -1 short
  entry_price,    \* Unbound until the first entry assigns it
  portfolio,      \* the list portfolio
  portfolio_value,\* the column df['portfolio_value'], NotSet until line 62
  bt_pc,          \* "idle", "loop", "raised", "done"
  hist            \* history, one record per bar: position0, cash0, entry0
                  \* before the bar, cash1 after lines 40-54, position, cash,
                  \* entry_price after the bar

VARIABLES
  kf,             \* the KalmanFilter object of SpecKF: F, H, Q, R, x, P
  zs,             \* the observations passed to update so far
  trail,          \* history: (x, P) at construction and after each update
  ret,            \* what the last update call returned, or raised
  kf_pc           \* "idle", "ready", "raised"

VARIABLES
  runs,           \* two runs of kalman_hedge_ratio, each on its own df
  hedge_pc        \* "idle", "loop"

btvars == <<initial_cash, commission, borrow_rate, n, df, i, cash, position,
            entry_price, portfolio, portfolio_value, bt_pc, hist>>
kfvars == <<kf, zs, trail, ret, kf_pc>>
hedgevars == <<runs, hedge_pc>>
vars == <<btvars, kfvars, hedgevars>>

\* a name that is unbound is <<>>, one bound to v is <<v>>
Unbound == <<>>
Bound(v) == <<v>>
ValueOf(b) == b[1]
NotSet == <<>>

\* bounds of the backtest inputs
MaxBars == 3
DaysPerYear == 252

InitialCashes == {Rat(1024, 1)}
Commissions == {Zero, Rat(1, 4)}
BorrowRates == {Zero, Rat(63, 1)}
Spreads == {Rat(100, 1), Rat(110, 1)}
Rows == [spread : Spreads, long_signal : {0, 1}, short_signal : {0, 1},
         exit_signal : {0, 1}]

\* cash -= commission * cash
TransactionCost(c, rate) == RSub(c, RMul(rate, c))

\* a faulty variant of Branch: the short test comes first
BranchShortFirst(row, pos) ==
  IF row.short_signal = 1 /\ pos = 0 THEN "short"
  ELSE IF row.long_signal = 1 /\ pos = 0 THEN "long"
  ELSE IF row.exit_signal = 1 /\ pos # 0 THEN "exit"
  ELSE "hold"

\* a faulty variant of Branch: the entry tests do not require a flat position
BranchEntryUnguarded(row, pos) ==
  IF row.long_signal = 1 /\ pos # 1 THEN "long"
  ELSE IF row.short_signal = 1 /\ pos # -1 THEN "short"
  ELSE IF row.exit_signal = 1 /\ pos # 0 THEN "exit"
  ELSE "hold"

\* a faulty variant of Branch: the exit test does not require an open position
BranchExitUnguarded(row, pos) ==
  IF row.long_signal = 1 /\ pos = 0 THEN "long"
  ELSE IF row.short_signal = 1 /\ pos = 0 THEN "short"
  ELSE IF row.exit_signal = 1 THEN "exit"
  ELSE "hold"

\* lines 40, 45, 50: which arm of the if / elif / elif chain the bar takes
Branch(row, pos) ==
  IF row.long_signal = 1 /\ pos = 0 THEN "long"
  ELSE IF row.short_signal = 1 /\ pos = 0 THEN "short"
  ELSE IF row.exit_signal = 1 /\ pos # 0 THEN "exit"
  ELSE "hold"

\* a faulty variant of ExitCash: the commission is taken before the P&L
ExitCashCommissionFirst(c, pos, entry, spread, rate) ==
  RAdd(TransactionCost(c, rate), RMul(Rat(pos, 1), RSub(entry, spread)))

\* lines 51-54: pnl = position * (entry_price - spread); cash += pnl;
\* cash -= commission * cash
ExitCash(c, pos, entry, spread, rate) ==
  TransactionCost(RAdd(c, RMul(Rat(pos, 1), RSub(entry, spread))), rate)

\* a variant of EntryAfterExit: the exit unbinds entry_price
EntryCleared(entry) == Unbound

\* lines 50-54 do not assign entry_price
EntryAfterExit(entry) == entry

\* a faulty variant of HoldCash: an open position is marked to market
HoldCashMarked(c, pos, entry, spread) ==
  IF pos # 0 /\ entry # Unbound
  THEN RAdd(c, RMul(Rat(pos, 1), RSub(spread, ValueOf(entry))))
  ELSE c

\* lines 40-54: a bar that takes no arm of the chain assigns nothing, the
\* spread of the bar is not read
HoldCash(c, pos, entry, spread) == c

\* lines 40-54: the effect of the arm taken; reading entry_price while it
\* is unbound raises UnboundLocalError
Transition(c, pos, entry, row, rate) ==
  LET b == Branch(row, pos)
  IN  IF b = "long"
      THEN [position |-> 1, entry_price |-> Bound(row.spread),
            cash |-> TransactionCost(c, rate), raised |-> FALSE]
      ELSE IF b = "short"
      THEN [position |-> -1, entry_price |-> Bound(row.spread),
            cash |-> TransactionCost(c, rate), raised |-> FALSE]
      ELSE IF b = "exit" /\ entry = Unbound
      THEN [position |-> pos, entry_price |-> entry, cash |-> c,
            raised |-> TRUE]
      ELSE IF b = "exit"
      THEN [position |-> 0, entry_price |-> EntryAfterExit(entry),
            cash |-> ExitCash(c, pos, ValueOf(entry), row.spread, rate),
            raised |-> FALSE]
      ELSE [position |-> pos, entry_price |-> entry,
            cash |-> HoldCash(c, pos, entry, row.spread), raised |-> FALSE]

\* a faulty variant of BorrowFee: the fee is charged unless long
BorrowFeeUnlessLong(c, pos, rate) ==
  IF pos # 1
  THEN RSub(c, RDiv(RMul(rate, c), Rat(DaysPerYear, 1)))
  ELSE c

\* lines 57-58: the daily borrow fee
BorrowFee(c, pos, rate) ==
  IF pos = -1
  THEN RSub(c, RDiv(RMul(rate, c), Rat(DaysPerYear, 1)))
  ELSE c

BtIdle ==
  /\ initial_cash = Zero /\ commission = Zero /\ borrow_rate = Zero
  /\ n = 0 /\ df = <<>> /\ i = 0 /\ cash = Zero /\ position = 0
  /\ entry_price = Unbound /\ portfolio = <<>> /\ portfolio_value = NotSet
  /\ bt_pc = "idle" /\ hist = <<>>
KfIdle == kf = <<>> /\ zs = <<>> /\ trail = <<>> /\ ret = <<>> /\ kf_pc = "idle"
HedgeIdle == runs = <<>> /\ hedge_pc = "idle"

\* a faulty variant of Record: the list is overwritten, not appended to
RecordOverwrite(list, c) == <<c>>

\* line 60: portfolio.append(cash)
Record(list, c) == Append(list, c)

\* lines 35-37: the state before the loop
BtInit ==
  /\ initial_cash \in InitialCashes
  /\ commission \in Commissions
  /\ borrow_rate \in BorrowRates
  /\ n \in 0..MaxBars
  /\ df = <<>>
  /\ i = 0
  /\ cash = initial_cash
  /\ position = 0
  /\ entry_price = Unbound
  /\ portfolio = <<>>
  /\ portfolio_value = NotSet
  /\ bt_pc = "loop"
  /\ hist = <<>>

\* lines 39-60: one iteration of the loop, on the row it reads
LoopBody ==
  /\ bt_pc = "loop"
  /\ i < n
  /\ \E row \in Rows :
       LET t == Transition(cash, position, entry_price, row, commission)
           c == BorrowFee(t.cash, t.position, borrow_rate)
       IN  /\ df' = Append(df, row)
           /\ IF t.raised
              THEN /\ bt_pc' = "raised"
                   /\ UNCHANGED <<i, cash, position, entry_price, portfolio,
                                  hist>>
              ELSE /\ bt_pc' = bt_pc
                   /\ i' = i + 1
                   /\ cash' = c
                   /\ position' = t.position
                   /\ entry_price' = t.entry_price
                   /\ portfolio' = Record(portfolio, c)
                   /\ hist' = Append(hist,
                        [position0 |-> position, cash0 |-> cash,
                         entry0 |-> entry_price, cash1 |-> t.cash,
                         position |-> t.position, cash |-> c,
                         entry_price |-> t.entry_price])
  /\ UNCHANGED <<initial_cash, commission, borrow_rate, n, portfolio_value>>
  /\ UNCHANGED <<kfvars, hedgevars>>

\* line 62: df['portfolio_value'] = portfolio, after the last row
Finish ==
  /\ bt_pc = "loop"
  /\ i = n
  /\ portfolio_value' = Bound(portfolio)
  /\ bt_pc' = "done"
  /\ UNCHANGED <<initial_cash, commission, borrow_rate, n, df, i, cash,
                 position, entry_price, portfolio, hist>>
  /\ UNCHANGED <<kfvars, hedgevars>>

----------------------------------------------------------------------------
(* kalman_filters.py: class KalmanFilter                                   *)

\* bounds of the filter inputs
MaxUpdates == 3

Fs == {Rat(1, 1), Rat(2, 1)}
Hs == {Zero, Rat(1, 1)}
Qs == {Zero, Rat(1, 100000)}
Rs == {Rat(-1, 1), Zero, Rat(1, 100)}
X0s == {Zero, Rat(1, 1)}
P0s == {Zero, Rat(1, 1)}
Zs == {Rat(-1, 1), Rat(3, 2)}

\* lines 9-15: __init__
KalmanFilter(F, H, Q, R, x0, P0) ==
  [F |-> F, H |-> H, Q |-> Q, R |-> R, x |-> x0, P |-> P0]

\* a faulty variant of Innovation: the difference is taken the other way
InnovationSwapped(z, H, x_pred) == RSub(RMul(H, x_pred), z)

\* line 29: z - self.H * x_pred
Innovation(z, H, x_pred) == RSub(z, RMul(H, x_pred))

\* lines 17-32: update(z).  Python's / raises ZeroDivisionError on a zero
\* divisor and nothing is assigned; otherwise x and P are assigned and
\* (x, P, K) is returned.
update(k, z) ==
  LET x_pred == RMul(k.F, k.x)
      P_pred == RAdd(RMul(RMul(k.F, k.P), k.F), k.Q)
      denom  == RAdd(RMul(RMul(k.H, P_pred), k.H), k.R)
  IN  IF RIsZero(denom)
      THEN [raised |-> "ZeroDivisionError", x |-> k.x, P |-> k.P, K |-> Zero]
      ELSE LET K == RDiv(RMul(P_pred, k.H), denom)
           IN  [raised |-> "",
                x |-> RAdd(x_pred, RMul(K, Innovation(z, k.H, x_pred))),
                P |-> RMul(RSub(Rat(1, 1), RMul(K, k.H)), P_pred),
                K |-> K]

KfInit ==
  /\ \E F \in Fs, H \in Hs, Q \in Qs, R \in Rs, x0 \in X0s, P0 \in P0s :
       /\ kf = KalmanFilter(F, H, Q, R, x0, P0)
       /\ trail = <<[x |-> x0, P |-> P0]>>
  /\ zs = <<>>
  /\ ret = <<>>
  /\ kf_pc = "ready"

\* one call kf.update(z)
Update ==
  /\ kf_pc = "ready"
  /\ Len(zs) < MaxUpdates
  /\ \E z \in Zs :
       LET r == update(kf, z)
       IN  /\ zs' = Append(zs, z)
           /\ ret' = <<r>>
           /\ IF r.raised # ""
              THEN /\ kf_pc' = "raised"
                   /\ UNCHANGED <<kf, trail>>
              ELSE /\ kf_pc' = kf_pc
                   /\ kf' = [kf EXCEPT !.x = r.x, !.P = r.P]
                   /\ trail' = Append(trail, [x |-> r.x, P |-> r.P])
  /\ UNCHANGED <<btvars, hedgevars>>

InitKF == BtIdle /\ KfInit /\ HedgeIdle
NextKF == Update
SpecKF == InitKF /\ [][NextKF]_vars

----------------------------------------------------------------------------
(* kalman_filters.py: kalman_hedge_ratio(df), two runs side by side, each  *)
(* on its own df, the two dfs of the same length                           *)

MaxPrices == 2
Runs == {1, 2}

PriceRows == {[price_V |-> Rat(2, 1), price_AXP |-> Rat(1, 1)],
              [price_V |-> Rat(3, 1), price_AXP |-> Rat(2, 1)]}

\* the literals of lines 43 and 46
HedgeQ == Rat(1, 100000)
HedgeR == Rat(1, 100)
Epsilon == Rat(1, 100000000)

\* a faulty variant of Observation: the row read is the next one, if any
ObservationAhead(prices, t) ==
  LET j == IF t + 2 <= Len(prices) THEN t + 2 ELSE t + 1
  IN  RDiv(prices[j].price_V, RAdd(prices[j].price_AXP, Epsilon))

\* line 46: z = y[t] / (x[t] + 1e-8), t counted from 0
Observation(prices, t) ==
  RDiv(prices[t + 1].price_V, RAdd(prices[t + 1].price_AXP, Epsilon))

\* np.zeros(n)
RECURSIVE Zeros(_)
Zeros(m) == IF m = 0 THEN <<>> ELSE Append(Zeros(m - 1), Zero)

\* lines 38-43: the state of one run before its loop
HedgeStart(prices) ==
  [prices |-> prices, t |-> 0, beta |-> Zeros(Len(prices)),
   kf |-> KalmanFilter(Rat(1, 1), Rat(1, 1), HedgeQ, HedgeR, Rat(1, 1),
                       Rat(1, 1)),
   raised |-> ""]

HedgeInit ==
  /\ \E m \in 0..MaxPrices :
       \E a \in [1..m -> PriceRows], b \in [1..m -> PriceRows] :
         runs = <<HedgeStart(a), HedgeStart(b)>>
  /\ hedge_pc = "loop"

\* lines 45-47: one iteration of the loop of run r
HedgeStep(r) ==
  /\ hedge_pc = "loop"
  /\ runs[r].raised = ""
  /\ runs[r].t < Len(runs[r].prices)
  /\ LET u == update(runs[r].kf, Observation(runs[r].prices, runs[r].t))
     IN  runs' = [runs EXCEPT ![r] =
           IF u.raised # ""
           THEN [@ EXCEPT !.raised = u.raised]
           ELSE [@ EXCEPT !.t = @ + 1,
                          !.beta[runs[r].t + 1] = u.x,
                          !.kf.x = u.x,
                          !.kf.P = u.P]]
  /\ UNCHANGED hedge_pc
  /\ UNCHANGED <<btvars, kfvars>>

InitHedge == BtIdle /\ KfIdle /\ HedgeInit
NextHedge == \E r \in Runs : HedgeStep(r)
SpecHedge == InitHedge /\ [][NextHedge]_vars

----------------------------------------------------------------------------
Init == BtInit /\ KfIdle /\ HedgeIdle
Next == LoopBody \/ Finish
Spec == Init /\ [][Next]_vars

----------------------------------------------------------------------------
(* Properties of backtest, checked under Spec.  hist and df only grow, so  *)
(* a statement about the newest bar that holds in every reachable state    *)
(* holds for every bar of every run.                                       *)

NBars == Len(hist)
LastBar == hist[NBars]
LastRow == df[NBars]
RunsBacktest == bt_pc # "idle"

OneMinus(r) == RSub(Rat(1, 1), r)
DailyRate == RDiv(borrow_rate, Rat(DaysPerYear, 1))

RECURSIVE RPow(_, _)
RPow(r, m) == IF m = 0 THEN Rat(1, 1) ELSE RMul(r, RPow(r, m - 1))

\* the P&L bar k realizes if it exits
Pnl(k) ==
  RMul(Rat(hist[k].position0, 1),
       RSub(ValueOf(hist[k].entry0), df[k].spread))

Exits(k) == hist[k].position0 # 0 /\ df[k].exit_signal = 1
OpensLong(k) == hist[k].position0 = 0 /\ hist[k].position = 1
OpensShort(k) == hist[k].position0 = 0 /\ hist[k].position = -1

\* C1: on a bar that starts Long or Short with exit_signal set, the cash
\* after the if / elif chain is (cash + position * (entry_spread - spread))
\* * (1 - commission) and the position becomes Flat; a Long opened at bar j
\* and closed at the same spread, with zero borrow rate, ends with the cash
\* before bar j times (1 - commission)^2, which is initial_cash * (1 -
\* commission)^2 when j is the first bar.
C1_ExitCash ==
  (RunsBacktest /\ NBars > 0 /\ Exits(NBars)) =>
    /\ LastBar.position = 0
    /\ REq(LastBar.cash1,
           RMul(RAdd(LastBar.cash0, Pnl(NBars)), OneMinus(commission)))
    /\ REq(LastBar.cash, LastBar.cash1)
    /\ \A j \in 1..(NBars - 1) :
         ( /\ OpensLong(j)
           /\ \A m \in j..(NBars - 1) : hist[m].position = 1
           /\ REq(df[j].spread, LastRow.spread)
           /\ RIsZero(borrow_rate) ) =>
           /\ REq(LastBar.cash,
                  RMul(hist[j].cash0, RPow(OneMinus(commission), 2)))
           /\ j = 1 =>
                REq(LastBar.cash,
                    RMul(initial_cash, RPow(OneMinus(commission), 2)))

\* a Short opened at one spread is closed at another, with a commission
C1_Witness ==
  /\ bt_pc = "loop" /\ NBars = 2
  /\ OpensShort(1) /\ Exits(2)
  /\ ~REq(df[1].spread, df[2].spread)
  /\ ~RIsZero(commission)
  /\ position = 0

\* C2: on a bar that starts Flat, long_signal opens Long, sets entry_spread
\* to the bar's spread and multiplies cash by (1 - commission); otherwise
\* short_signal does the same with Short; otherwise the position stays
\* Flat.  With both signals set the result is Long.
C2_EntryFromFlat ==
  (RunsBacktest /\ NBars > 0 /\ LastBar.position0 = 0) =>
    IF LastRow.long_signal = 1
    THEN /\ LastBar.position = 1
         /\ LastBar.entry_price = Bound(LastRow.spread)
         /\ REq(LastBar.cash1, RMul(LastBar.cash0, OneMinus(commission)))
    ELSE IF LastRow.short_signal = 1
    THEN /\ LastBar.position = -1
         /\ LastBar.entry_price = Bound(LastRow.spread)
         /\ REq(LastBar.cash1, RMul(LastBar.cash0, OneMinus(commission)))
    ELSE /\ LastBar.position = 0
         /\ REq(LastBar.cash1, LastBar.cash0)

\* a Flat bar with long_signal and short_signal both set has opened Long
C2_Witness ==
  /\ bt_pc = "loop" /\ NBars > 0
  /\ LastBar.position0 = 0
  /\ LastRow.long_signal = 1 /\ LastRow.short_signal = 1
  /\ position = 1
  /\ ~RIsZero(commission)

C7_ExitWhileFlat ==
  RunsBacktest =>
    /\ bt_pc # "raised"
    /\ ( /\ NBars > 0
         /\ LastBar.position0 = 0
         /\ LastRow.exit_signal = 1
         /\ LastRow.long_signal = 0 /\ LastRow.short_signal = 0 ) =>
         /\ LastBar.position = 0
         /\ REq(LastBar.cash, LastBar.cash0)
    /\ (\A k \in 1..Len(df) :
          df[k].long_signal = 0 /\ df[k].short_signal = 0) =>
         \A k \in 1..Len(portfolio) : REq(portfolio[k], initial_cash)

\* every bar of a full run had exit_signal only, with both rates non-zero
C7_Witness ==
  /\ bt_pc = "done" /\ n = MaxBars
  /\ \A k \in 1..n :
       /\ df[k].exit_signal = 1
       /\ df[k].long_signal = 0 /\ df[k].short_signal = 0
  /\ ~RIsZero(commission) /\ ~RIsZero(borrow_rate)
  /\ ValueOf(portfolio_value)[n] = initial_cash

\* C8: one portfolio value per bar read, in bar order, the k-th being the
\* cash at the end of bar k; the column written at the end is that list,
\* of length len(df); an empty df gives an empty column and raises nothing.
C8_OneValuePerBar ==
  RunsBacktest =>
    /\ bt_pc # "raised"
    /\ Len(portfolio) = i
    /\ NBars = i
    /\ \A k \in 1..NBars : portfolio[k] = hist[k].cash
    /\ i > 0 => portfolio[i] = cash
    /\ bt_pc = "done" =>
         /\ portfolio_value = Bound(portfolio)
         /\ Len(portfolio) = n
         /\ n = 0 => portfolio_value = Bound(<<>>)
    /\ bt_pc # "done" => portfolio_value = NotSet

\* the run on an empty df has finished with an empty column
C8_Witness ==
  /\ bt_pc = "done" /\ n = 0
  /\ portfolio_value = Bound(<<>>)

\* C9 as claimed: entry_spread is defined if and only if the position is
\* not Flat.
C9_DefinedIffNotFlat ==
  RunsBacktest => (entry_price # Unbound <=> position # 0)

\* the bars so far that opened a position
Entries == {k \in 1..NBars : hist[k].position0 = 0 /\ hist[k].position # 0}

RECURSIVE MaxOf(_)
MaxOf(S) == 
  LET x == CHOOSE y \in S : TRUE
  IN  IF S = {x} THEN x
      ELSE LET m == MaxOf(S \ {x}) IN IF x > m THEN x ELSE m

\* C9 as the code has it: entry_price is unbound exactly until the first
\* entry, every entry binds it to the bar's spread, so it is bound whenever
\* the position is not Flat; an exit leaves it as it was, so after an exit
\* the position is Flat and entry_price still holds the spread at which the
\* closed trade was opened.
C9_BoundSinceFirstEntry ==
  RunsBacktest =>
    /\ position # 0 => entry_price # Unbound
    /\ entry_price = Unbound <=> Entries = {}
    /\ Entries # {} => entry_price = Bound(df[MaxOf(Entries)].spread)
    /\ (NBars > 0 /\ Exits(NBars)) =>
         /\ position = 0
         /\ entry_price = LastBar.entry0
         /\ entry_price # Unbound

\* a trade has been opened and closed: Flat, entry_price still bound
C9_Witness ==
  /\ bt_pc = "loop" /\ NBars > 0
  /\ Exits(NBars)
  /\ position = 0
  /\ entry_price # Unbound

\* C10: over one bar the position goes only Flat->Flat, Flat->Long,
\* Flat->Short, Long->Long, Long->Flat, Short->Short or Short->Flat; a bar
\* that exits ends Flat even when long_signal or short_signal is set on
\* it; an open position with no exit_signal keeps position and
\* entry_spread whatever long_signal and short_signal are.
C10_PositionSteps ==
  (RunsBacktest /\ NBars > 0) =>
    /\ <<LastBar.position0, LastBar.position>> \in
         {<<0, 0>>, <<0, 1>>, <<0, -1>>, <<1, 1>>, <<1, 0>>, <<-1, -1>>,
          <<-1, 0>>}
    /\ Exits(NBars) => LastBar.position = 0
    /\ (LastBar.position0 # 0 /\ LastRow.exit_signal = 0) =>
         /\ LastBar.position = LastBar.position0
         /\ LastBar.entry_price = LastBar.entry0

\* a Short is closed by a bar that also has long_signal set, and stays Flat
C10_Witness ==
  /\ bt_pc = "loop" /\ NBars > 0
  /\ LastBar.position0 = -1
  /\ LastRow.exit_signal = 1 /\ LastRow.long_signal = 1
  /\ position = 0

\* C11: an open position is never marked to market.  A bar that starts
\* and ends Long leaves cash unchanged whatever its spread is, and cash
\* changes over a bar only if the bar opens a position (commission),
\* closes one (realized P&L and commission) or ends Short (borrow fee).
C11_NoMarkToMarket ==
  (RunsBacktest /\ NBars > 0) =>
    /\ (LastBar.position0 = 1 /\ LastBar.position = 1) =>
         REq(LastBar.cash, LastBar.cash0)
    /\ ~REq(LastBar.cash, LastBar.cash0) =>
         \/ LastBar.position0 = 0 /\ LastBar.position # 0
         \/ LastBar.position0 # 0 /\ LastBar.position = 0
         \/ LastBar.position = -1

\* a Long opened at one spread is held over a bar with another spread,
\* with a borrow rate and a commission that are not zero: cash is the cash
\* the entry left
C11_Witness ==
  /\ bt_pc = "loop" /\ NBars > 1
  /\ LastBar.position0 = 1 /\ position = 1
  /\ ~REq(LastRow.spread, ValueOf(LastBar.entry0))
  /\ ~RIsZero(borrow_rate) /\ ~RIsZero(commission)
  /\ REq(cash, LastBar.cash0)
  /\ RLt(cash, initial_cash)

----------------------------------------------------------------------------
(* Properties of KalmanFilter, checked under SpecKF.                       *)

\* C4: an update whose gain denominator H * P_pred * H + R is zero is
\* reported as a degenerate-parameters error, not as a raw divide-by-zero.
C4_DegenerateReported ==
  kf_pc = "raised" => ret[1].raised = "DegenerateParameters"

UnitFH == REq(kf.F, Rat(1, 1)) /\ REq(kf.H, Rat(1, 1))
ConstantStream == Len(zs) > 0 /\ \A k \in 1..Len(zs) : zs[k] = zs[1]
Updated == kf_pc = "ready" /\ Len(trail) = Len(zs) + 1 /\ Len(zs) > 0
Before == trail[Len(trail) - 1]
After == trail[Len(trail)]
NonNegative == 
  /\ RLe(Zero, kf.Q) /\ RLe(Zero, kf.R) /\ RLe(Zero, trail[1].P)

\* the last update moved x no further from c = zs[1] and not across it
Approaches ==
  /\ RLe(RAbs(RSub(After.x, zs[1])), RAbs(RSub(Before.x, zs[1])))
  /\ RLe(Before.x, zs[1]) => RLe(After.x, zs[1])
  /\ RLe(zs[1], Before.x) => RLe(zs[1], After.x)

\* C6 as claimed, for Q, R and P0 that are not negative: with F = H = 1 and
\* a constant observation stream, every update leaves |x - c| no larger,
\* does not overshoot c, and leaves P no larger.
C6_MonotoneAndShrinking ==
  (Updated /\ UnitFH /\ ConstantStream /\ NonNegative) =>
    /\ Approaches
    /\ RLe(After.P, Before.P)

\* C6 as the code has it: with F = H = 1, Q, R and P0 not negative and a
\* constant observation stream, every update leaves |x - c| no larger and
\* does not overshoot c; P is non-increasing at every step when the first
\* update did not raise it (P_1 <= P_0).
C6_MonotoneFromFirstStep ==
  (Updated /\ UnitFH /\ ConstantStream /\ NonNegative) =>
    /\ Approaches
    /\ RLe(trail[2].P, trail[1].P) => RLe(After.P, Before.P)

\* the default noise terms and prior covariance, a constant stream of
\* MaxUpdates observations: x has moved strictly closer and P has shrunk
C6_Witness ==
  /\ Updated /\ UnitFH /\ ConstantStream
  /\ Len(zs) = MaxUpdates
  /\ kf.Q = Rat(1, 100000) /\ kf.R = Rat(1, 100) /\ trail[1].P = Rat(1, 1)
  /\ RLt(RAbs(RSub(After.x, zs[1])), RAbs(RSub(Before.x, zs[1])))
  /\ RLt(After.P, Before.P)

----------------------------------------------------------------------------
(* Properties of kalman_hedge_ratio, checked under SpecHedge.              *)

SamePrefix(k) == \A j \in 1..k : runs[1].prices[j] = runs[2].prices[j]
Earlier == IF runs[1].t <= runs[2].t THEN runs[1].t ELSE runs[2].t

\* C5: two runs on dfs of the same length that agree on rows 0..t have the
\* same hedge_ratio at rows 0..t, and the same estimate and covariance
\* after row t, whatever the later rows are.
C5_Causality ==
  hedge_pc = "loop" =>
    /\ \A k \in 1..Earlier :
         SamePrefix(k) => REq(runs[1].beta[k], runs[2].beta[k])
    /\ (runs[1].t = runs[2].t /\ SamePrefix(runs[1].t)) =>
         /\ REq(runs[1].kf.x, runs[2].kf.x)
         /\ REq(runs[1].kf.P, runs[2].kf.P)

\* both runs are complete, their dfs agree on the first row and differ on
\* the last: the first hedge ratios agree, the last differ
C5_Witness ==
  /\ hedge_pc = "loop"
  /\ Len(runs[1].prices) = MaxPrices
  /\ runs[1].t = MaxPrices /\ runs[2].t = MaxPrices
  /\ SamePrefix(MaxPrices - 1)
  /\ runs[1].prices[MaxPrices] # runs[2].prices[MaxPrices]
  /\ REq(runs[1].beta[1], runs[2].beta[1])
  /\ ~REq(runs[1].beta[MaxPrices], runs[2].beta[MaxPrices])

====
